---- MODULE Spec2Model ----
(***************************************************************************)
(* A model of TaskmasterAI.  The first part is the AI service layer        *)
(* (src/services/geminiService.ts), specification Spec: one behaviour is   *)
(* one call of one of the five exported operations: the credential check,  *)
(* the transport request, the handling of the response or of every         *)
(* streamed chunk, the completion code and the catch handler.  The second  *)
(* part is the user interface (App, Header, Modal, TaskForm),              *)
(* specifications AppSpec (the task list and the save of the form, on any  *)
(* stored value), HeaderSpec (Header's AI add), FormSpec (the task form    *)
(* with its AI actions) and AiFairSpec (the AI actions when every service  *)
(* call settles): one behaviour is one session of the application, from    *)
(* the load of the stored tasks on.  Text is modelled by TLA+ strings;     *)
(* JavaScript values that may be undefined are tagged records.             *)
(***************************************************************************)
EXTENDS Integers, Sequences, FiniteSets, TLC

(***************************************************************************)
(* Bounds of the model.                                                    *)
(***************************************************************************)
\* chunks one text stream delivers at most
MaxChunks == 3
\* response objects one contextual-info stream delivers at most
MaxResponses == 2
\* characters one enhance stream delivers at most, over all of its chunks
MaxTextLen == 3
\* citation entries one stream carries at most, over all of its responses
MaxGrounding == 2

(***************************************************************************)
(* JavaScript values.                                                      *)
(***************************************************************************)
Undefined == [type |-> "undefined", val |-> ""]
Str(s) == [type |-> "string", val |-> s]
\* typeof v === 'string'
IsString(v) == v.type = "string"
\* the truthiness of a string-or-undefined value
Truthy(v) == v.type = "string" /\ v.val # ""

\* the characters streamed text is made of
Alphabet == {"a", " ", "\n"}

RECURSIVE StringsUpTo(_)
StringsUpTo(n) ==
    IF n <= 0 THEN {""}
    ELSE LET shorter == StringsUpTo(n - 1)
         IN  shorter \cup {s \o c : s \in shorter, c \in Alphabet}

CharAt(s, i) == SubSeq(s, i, i)

\* String.prototype.trim's white space, as far as the alphabet has it
IsSpace(c) == c \in {" ", "\n", "\t", "\r"}

RECURSIVE TrimStart(_)
TrimStart(s) ==
    IF Len(s) = 0 THEN ""
    ELSE IF IsSpace(CharAt(s, 1)) THEN TrimStart(Tail(s))
    ELSE s

RECURSIVE TrimEnd(_)
TrimEnd(s) ==
    IF Len(s) = 0 THEN ""
    ELSE IF IsSpace(CharAt(s, Len(s))) THEN TrimEnd(SubSeq(s, 1, Len(s) - 1))
    ELSE s

\* String.prototype.trim
Trim(s) == TrimEnd(TrimStart(s))

\* String.prototype.indexOf(c) for a one-character c: 0-based, -1 when absent
IndexOf(s, c) ==
    IF \E i \in 1..Len(s) : CharAt(s, i) = c
    THEN (CHOOSE i \in 1..Len(s) :
              /\ CharAt(s, i) = c
              /\ \A j \in 1..(i - 1) : CharAt(s, j) # c) - 1
    ELSE -1

\* String.prototype.substring(from, to) and substring(from), 0-based
Substring(s, from, to) == SubSeq(s, from + 1, to)
SubstringFrom(s, from) == SubSeq(s, from + 1, Len(s))

(***************************************************************************)
(* Errors.  A thrown value has an origin (raised by the transport or       *)
(* created by the service), may or may not be an Error instance, and       *)
(* carries a message.                                                      *)
(***************************************************************************)
TransportErrors ==
    { [type |-> "error", origin |-> "transport", isError |-> TRUE,  message |-> "network down"],
      [type |-> "error", origin |-> "transport", isError |-> FALSE, message |-> ""] }

NewError(msg) == [type |-> "error", origin |-> "service", isError |-> TRUE, message |-> msg]

MissingKeyError == NewError("Gemini API key not configured.")

\* process.env.API_KEY: unset, empty or set
ApiKeys == {Undefined, Str(""), Str("k")}

\* the task title and description handed to an operation
Titles == {"", "t"}
Descriptions == {"d"}

NoResult == [kind |-> "none"]
Thrown(e) == [kind |-> "error", error |-> e]

\* one callback invocation
Call1(cb, text) == [cb |-> cb, text |-> text, sources |-> <<>>]
CallSources(list) == [cb |-> "onSources", text |-> "", sources |-> list]

\* a response object of the transport: its text and what
\* candidates?.[0]?.groundingMetadata?.groundingChunks evaluates to
Response(text, chunks) == [type |-> "response", text |-> text, groundingChunks |-> chunks]
Null == [type |-> "null"]

Arr(items) == [type |-> "array", val |-> items]
\* the web reference of a grounding chunk
Web(uri, title) == [type |-> "object", uri |-> uri, title |-> title]

\* the values of gc.web a response can carry: absent, or a reference whose uri
\* and title may each be missing or empty
WebValues ==
    { Undefined,
      Web(Undefined, Str("T")),
      Web(Str(""), Str("T")),
      Web(Str("ftp://x"), Str("T")),
      Web(Str("https://y"), Undefined),
      Web(Str("https://y"), Str("")),
      Web(Str("http://z"), Str("Z")),
      Web(Str("httpx://w"), Str("W")) }

RECURSIVE ListsUpTo(_, _)
ListsUpTo(S, n) ==
    IF n <= 0 THEN {<<>>}
    ELSE LET shorter == ListsUpTo(S, n - 1)
         IN  shorter \cup {Append(l, x) : l \in shorter, x \in S}

VARIABLES
    API_KEY,                  \* the module constant API_KEY
    op,                       \* the operation called: "none" before the call
    pc,                       \* "idle", "requesting", "streaming", "returned", "thrown"
    requests,                 \* transport requests issued
    delivered,                \* the chunks the transport has delivered, in order
    currentTitle,
    currentDescription,
    accumulatedResponseText,  \* enhanceTaskWithAIStream's locals
    finalTitle,
    finalDescription,
    titleSent,
    firstNewlineIndex,
    accumulatedText,          \* the locals of the two forwarding streams
    finalApiResponse,
    calls,                    \* the callback invocations made, in order
    response,                 \* the response text a request/response call resolved with
    raised,                   \* the error the transport raised, Null when none
    result                    \* what the call gave its caller

\* the state of the user interface
VARIABLES
    savedTasks,               \* localStorage 'zenithTasks' when App is constructed
    zenithTasks,              \* localStorage 'zenithTasks' as App's effect keeps it
    tasks,                    \* App's state
    isModalOpen,
    editingTask,
    aiSuggestedTask,
    error,
    isSubmitting,
    timers,                   \* the pending setTimeout callbacks of handleFormSubmit
    generated,                \* ids generateId has handed out
    crashed,                  \* an uncaught error has unmounted the application
    nlpInput,                 \* Header's state
    isProcessingAi,
    taskString,               \* the argument of the pending handleAddTaskWithAi call
    formKey,                  \* TaskForm instances mounted so far
    formTitle,                \* the mounted TaskForm's state: title, tags,
    formTags,                 \* status, contextualSources
    formStatus,
    formSources,
    isEnhancingAi,
    isSuggestingTags,
    isSuggestingSubtasks,
    isFetchingContext,
    enhancementError,
    tagsError,
    subtasksError,
    contextError,
    aiCalls,                  \* the service calls of TaskForm instances in flight
    writes                    \* the latest stream callback into the mounted TaskForm

appState == << tasks, isModalOpen, editingTask, aiSuggestedTask, error, isSubmitting >>

headerState == << nlpInput, isProcessingAi, taskString >>

formFields == << formTitle, formTags, formStatus, formSources >>

formFlags == << isEnhancingAi, isSuggestingTags, isSuggestingSubtasks, isFetchingContext >>

formErrors == << enhancementError, tagsError, subtasksError, contextError >>

appVars == << savedTasks, zenithTasks, appState, timers, generated, crashed, headerState, formKey,
              formFields, formFlags, formErrors, aiCalls, writes >>

serviceVars == << API_KEY, op, pc, requests, delivered, currentTitle, currentDescription,
                  accumulatedResponseText, finalTitle, finalDescription, titleSent,
                  firstNewlineIndex, accumulatedText, finalApiResponse, calls, response,
                  raised, result >>

vars == << serviceVars, appVars >>

enhanceLocals == << accumulatedResponseText, finalTitle, finalDescription,
                    titleSent, firstNewlineIndex >>

streamLocals == << accumulatedText, finalApiResponse >>

args == << currentTitle, currentDescription >>

\* the user interface before App is constructed
AppNotStarted ==
    /\ savedTasks = Null
    /\ zenithTasks = Null
    /\ tasks = <<>>
    /\ isModalOpen = FALSE
    /\ editingTask = Null
    /\ aiSuggestedTask = Null
    /\ error = Null
    /\ isSubmitting = FALSE
    /\ timers = <<>>
    /\ generated = 0
    /\ crashed = FALSE
    /\ nlpInput = ""
    /\ isProcessingAi = FALSE
    /\ taskString = Null
    /\ formKey = 0
    /\ formTitle = ""
    /\ formTags = ""
    /\ formStatus = "To Do"
    /\ formSources = Null
    /\ isEnhancingAi = FALSE
    /\ isSuggestingTags = FALSE
    /\ isSuggestingSubtasks = FALSE
    /\ isFetchingContext = FALSE
    /\ enhancementError = Null
    /\ tagsError = Null
    /\ subtasksError = Null
    /\ contextError = Null
    /\ aiCalls = {}
    /\ writes = <<>>

Init ==
    /\ API_KEY \in ApiKeys
    /\ op = "none"
    /\ pc = "idle"
    /\ requests = 0
    /\ delivered = <<>>
    /\ currentTitle = ""
    /\ currentDescription = ""
    /\ accumulatedResponseText = ""
    /\ finalTitle = ""
    /\ finalDescription = ""
    /\ titleSent = FALSE
    /\ firstNewlineIndex = -1
    /\ accumulatedText = ""
    /\ finalApiResponse = Null
    /\ calls = <<>>
    /\ response = Null
    /\ raised = Null
    /\ result = NoResult
    /\ AppNotStarted

\* the text of all string chunks of a chunk sequence, concatenated in order
RECURSIVE TextOf(_)
TextOf(chunks) ==
    IF chunks = <<>> THEN ""
    ELSE LET c == Head(chunks)
         IN  (IF IsString(c.text) THEN c.text.val ELSE "") \o TextOf(Tail(chunks))

\* the texts the transport can deliver next: no text at all, or a string
\* that keeps the stream within MaxTextLen
TextsWithin ==
    [n \in 0..MaxTextLen |-> {Undefined} \cup {Str(s) : s \in StringsUpTo(n)}]

NextTexts ==
    IF pc = "streaming" /\ op = "enhance"
    THEN TextsWithin[MaxTextLen - Len(TextOf(delivered))]
    ELSE {}

(***************************************************************************)
(* enhanceTaskWithAIStream                                                 *)
(***************************************************************************)
EnhanceCall(t, d) ==
    /\ pc = "idle"
    /\ op' = "enhance"
    /\ currentTitle' = t
    /\ currentDescription' = d
    /\ IF ~Truthy(API_KEY)
       THEN /\ pc' = "thrown"
            /\ result' = Thrown(MissingKeyError)
            /\ UNCHANGED << requests, enhanceLocals >>
       ELSE /\ pc' = "requesting"
            /\ requests' = requests + 1
            /\ accumulatedResponseText' = ""
            /\ finalTitle' = t
            /\ finalDescription' = d
            /\ titleSent' = FALSE
            /\ firstNewlineIndex' = -1
            /\ UNCHANGED result
    /\ UNCHANGED << response, raised, API_KEY, appVars, delivered, calls, streamLocals >>

\* the operations that consume a stream
StreamOps == {"enhance", "subtasks", "context"}

\* the await of generateContentStream resolves with the stream
StreamOpen ==
    /\ pc = "requesting"
    /\ op \in StreamOps
    /\ pc' = "streaming"
    /\ UNCHANGED << response, raised, API_KEY, appVars, op, requests, delivered, args,
                    enhanceLocals, streamLocals, calls, result >>

\* Accumulate keeping the last fragment only
AccumulateReplaces(acc, chunkText) == chunkText

\* accumulatedResponseText += chunkText
Accumulate(acc, chunkText) == acc \o chunkText

\* DescriptionCandidate with the text trimmed, as the final split does
DescriptionCandidateTrimmed(acc, idx) == Trim(SubstringFrom(acc, idx + 1))

\* the body the loop notifies: everything after the first newline
DescriptionCandidate(acc, idx) == SubstringFrom(acc, idx + 1)

\* NotifyAfterNewline notifying the title again as well
NotifyAfterNewlineWithTitle(title, body) ==
    << Call1("onTitleCandidate", title), Call1("onDescriptionCandidate", body) >>

\* the notifications of a fragment that comes after the first newline
NotifyAfterNewline(title, body) == << Call1("onDescriptionCandidate", body) >>

\* one iteration of the for-await loop: the chunk is absorbed
EnhanceChunk(text) ==
    /\ pc = "streaming"
    /\ op = "enhance"
    /\ Len(delivered) < MaxChunks
    /\ delivered' = Append(delivered, Response(text, Undefined))
    /\ IF ~IsString(text)
       THEN UNCHANGED << enhanceLocals, calls >>
       ELSE LET acc == Accumulate(accumulatedResponseText, text.val)
                idx == IndexOf(acc, "\n")
            IN  /\ accumulatedResponseText' = acc
                /\ IF firstNewlineIndex = -1
                   THEN /\ firstNewlineIndex' = idx
                        /\ IF idx # -1
                           THEN /\ finalTitle' = Trim(Substring(acc, 0, idx))
                                /\ titleSent' = TRUE
                                /\ finalDescription' = DescriptionCandidate(acc, idx)
                                /\ calls' = calls \o
                                     << Call1("onTitleCandidate", finalTitle'),
                                        Call1("onDescriptionCandidate", finalDescription') >>
                           ELSE /\ finalTitle' = Trim(acc)
                                /\ calls' = Append(calls, Call1("onTitleCandidate", finalTitle'))
                                /\ UNCHANGED << titleSent, finalDescription >>
                   ELSE /\ finalDescription' = DescriptionCandidate(acc, firstNewlineIndex)
                        /\ calls' = calls \o NotifyAfterNewline(finalTitle, finalDescription')
                        /\ UNCHANGED << firstNewlineIndex, finalTitle, titleSent >>
    /\ UNCHANGED << response, raised, API_KEY, appVars, op, pc, requests, args, streamLocals,
                    result >>

\* FinalSplit with the body left as the loop leaves it, untrimmed
FinalSplitBodyUntrimmed(acc) ==
    LET idx == IndexOf(acc, "\n")
    IN  IF idx # -1
        THEN [title |-> Trim(Substring(acc, 0, idx)),
              body  |-> SubstringFrom(acc, idx + 1)]
        ELSE [title |-> Trim(acc), body |-> ""]

\* FinalSplit with the description of the call kept when no newline came
FinalSplitKeepsDescription(acc) ==
    LET idx == IndexOf(acc, "\n")
    IN  IF idx # -1
        THEN [title |-> Trim(Substring(acc, 0, idx)),
              body  |-> Trim(SubstringFrom(acc, idx + 1))]
        ELSE [title |-> Trim(acc), body |-> finalDescription]

\* the final split of the complete accumulated text
FinalSplit(acc) ==
    LET idx == IndexOf(acc, "\n")
    IN  IF idx # -1
        THEN [title |-> Trim(Substring(acc, 0, idx)),
              body  |-> Trim(SubstringFrom(acc, idx + 1))]
        ELSE [title |-> Trim(acc), body |-> ""]

\* EnhanceFinalCalls notifying the title whatever it is
EnhanceFinalCallsAlwaysTitle(sent, title, body) ==
    << Call1("onTitleCandidate", title), Call1("onDescriptionCandidate", body) >>

\* the notifications made on completion
EnhanceFinalCalls(sent, title, body) ==
    (IF sent THEN << Call1("onTitleCandidate", title) >>
     ELSE IF title # "" THEN << Call1("onTitleCandidate", title) >>
     ELSE << >>)
    \o << Call1("onDescriptionCandidate", body) >>

\* the stream ends: the code after the loop
EnhanceEnd ==
    /\ pc = "streaming"
    /\ op = "enhance"
    /\ LET split == FinalSplit(accumulatedResponseText)
       IN  /\ firstNewlineIndex' = IndexOf(accumulatedResponseText, "\n")
           /\ finalTitle' = split.title
           /\ finalDescription' = split.body
           /\ calls' = calls \o EnhanceFinalCalls(titleSent, split.title, split.body)
           /\ result' = [kind |-> "enhanced",
                         refinedTitle |-> split.title,
                         refinedDescription |-> split.body]
    /\ pc' = "returned"
    /\ UNCHANGED << response, raised, API_KEY, appVars, op, requests, delivered, args, streamLocals,
                    accumulatedResponseText, titleSent >>

\* what the catch handler throws for the error it caught
EnhanceRethrow(err) == err

\* EnhanceFail with the completion notifications made before the throw
EnhanceFailNotifies(err) ==
    /\ pc \in {"requesting", "streaming"}
    /\ op = "enhance"
    /\ raised' = err
    /\ pc' = "thrown"
    /\ result' = Thrown(err)
    /\ calls' = calls \o EnhanceFinalCalls(titleSent, finalTitle, finalDescription)
    /\ UNCHANGED << response, API_KEY, appVars, op, requests, delivered, args,
                    enhanceLocals, streamLocals >>

\* the transport raises err, at the request or between two chunks: the catch handler
EnhanceFail(err) ==
    /\ pc \in {"requesting", "streaming"}
    /\ op = "enhance"
    /\ raised' = err
    /\ pc' = "thrown"
    /\ result' = Thrown(EnhanceRethrow(err))
    /\ UNCHANGED << response, API_KEY, appVars, op, requests, delivered, args,
                    enhanceLocals, streamLocals, calls >>

(***************************************************************************)
(* streamSubTasksWithAI                                                    *)
(***************************************************************************)
\* (the title and the description go into the prompt only, which the model
\* leaves out)
SubTasksCall ==
    /\ pc = "idle"
    /\ op' = "subtasks"
    /\ IF ~Truthy(API_KEY)
       THEN /\ pc' = "thrown"
            /\ result' = Thrown(MissingKeyError)
            /\ UNCHANGED << requests, accumulatedText >>
       ELSE /\ pc' = "requesting"
            /\ requests' = requests + 1
            /\ accumulatedText' = ""
            /\ UNCHANGED result
    /\ UNCHANGED << response, raised, API_KEY, appVars, delivered, calls, args, enhanceLocals,
                    finalApiResponse >>

\* the chunk texts a forwarding stream can deliver: no text, or a string
ForwardTexts == {Undefined, Str(""), Str("a"), Str("b")}

\* the loop body both forwarding streams share: the callback invocations a
\* chunk text causes, and the accumulated text after it
\* ForwardCalls testing the text for truthiness instead of its type
ForwardCallsSkipsEmpty(text) ==
    IF Truthy(text) THEN << Call1("onChunk", text.val) >> ELSE << >>

ForwardCalls(text) ==
    IF IsString(text) THEN << Call1("onChunk", text.val) >> ELSE << >>

ForwardText(acc, text) ==
    IF IsString(text) THEN acc \o text.val ELSE acc

SubTasksChunk(text) ==
    /\ pc = "streaming"
    /\ op = "subtasks"
    /\ Len(delivered) < MaxChunks
    /\ delivered' = Append(delivered, Response(text, Undefined))
    /\ calls' = calls \o ForwardCalls(text)
    /\ accumulatedText' = ForwardText(accumulatedText, text)
    /\ UNCHANGED << response, raised, API_KEY, appVars, op, pc, requests, args, enhanceLocals, finalApiResponse,
                    result >>

SubTasksEnd ==
    /\ pc = "streaming"
    /\ op = "subtasks"
    /\ pc' = "returned"
    /\ result' = [kind |-> "text", text |-> accumulatedText]
    /\ UNCHANGED << response, raised, API_KEY, appVars, op, requests, delivered, args, enhanceLocals,
                    streamLocals, calls >>

\* SubTasksRethrow with the error replaced, as suggestTagsWithAI does
SubTasksRethrowReplaced(err) == NewError("Failed to suggest sub-tasks with AI.")

\* what the catch handler throws for the error it caught
SubTasksRethrow(err) == err

SubTasksFail(err) ==
    /\ pc \in {"requesting", "streaming"}
    /\ op = "subtasks"
    /\ raised' = err
    /\ pc' = "thrown"
    /\ result' = Thrown(SubTasksRethrow(err))
    /\ UNCHANGED << response, API_KEY, appVars, op, requests, delivered, args, enhanceLocals,
                    streamLocals, calls >>

(***************************************************************************)
(* streamContextualInfoWithAI                                              *)
(***************************************************************************)
ContextCall ==
    /\ pc = "idle"
    /\ op' = "context"
    /\ IF ~Truthy(API_KEY)
       THEN /\ pc' = "thrown"
            /\ result' = Thrown(MissingKeyError)
            /\ UNCHANGED << requests, streamLocals >>
       ELSE /\ pc' = "requesting"
            /\ requests' = requests + 1
            /\ accumulatedText' = ""
            /\ finalApiResponse' = Null
            /\ UNCHANGED result
    /\ UNCHANGED << response, raised, API_KEY, appVars, delivered, calls, args, enhanceLocals >>

\* the texts a response of the contextual-info stream can carry: none, the
\* empty string or a letter
ContextTexts == {Undefined, Str(""), Str("a")}

\* the citation entries the responses of a chunk sequence carry, in all
RECURSIVE GroundingUsed(_)
GroundingUsed(chunks) ==
    IF chunks = <<>> THEN 0
    ELSE LET g == Head(chunks).groundingChunks
         IN  (IF g.type = "array" THEN Len(g.val) ELSE 0) + GroundingUsed(Tail(chunks))

\* the grounding chunks the next response can carry: none (some link of
\* candidates?.[0]?.groundingMetadata?.groundingChunks is missing) or a list
\* that keeps the stream within MaxGrounding
GroundingsWithin ==
    [n \in 0..MaxGrounding |-> {Undefined} \cup {Arr(l) : l \in ListsUpTo(WebValues, n)}]

NextGroundings ==
    IF pc = "streaming" /\ op = "context"
    THEN GroundingsWithin[MaxGrounding - GroundingUsed(delivered)]
    ELSE {}

\* ContextChunk retaining only the responses that carry a text
ContextChunkRetainsTextOnly(text, grounding) ==
    /\ pc = "streaming"
    /\ op = "context"
    /\ Len(delivered) < MaxResponses
    /\ delivered' = Append(delivered, Response(text, grounding))
    /\ finalApiResponse' =
          IF IsString(text) THEN Response(text, grounding) ELSE finalApiResponse
    /\ calls' = calls \o ForwardCalls(text)
    /\ accumulatedText' = ForwardText(accumulatedText, text)
    /\ UNCHANGED << response, raised, API_KEY, appVars, op, pc, requests, args, enhanceLocals,
                    result >>

ContextChunk(text, grounding) ==
    /\ pc = "streaming"
    /\ op = "context"
    /\ Len(delivered) < MaxResponses
    /\ delivered' = Append(delivered, Response(text, grounding))
    /\ finalApiResponse' = Response(text, grounding)
    /\ calls' = calls \o ForwardCalls(text)
    /\ accumulatedText' = ForwardText(accumulatedText, text)
    /\ UNCHANGED << response, raised, API_KEY, appVars, op, pc, requests, args, enhanceLocals,
                    result >>

\* String.prototype.startsWith
StartsWith(s, prefix) ==
    /\ Len(s) >= Len(prefix)
    /\ SubSeq(s, 1, Len(prefix)) = prefix

\* the filter of the grounding chunks' web references
WebFilter(web) ==
    /\ web.type = "object"
    /\ Truthy(web.uri)
    /\ StartsWith(web.uri.val, "http")

\* WebSource with the title replaced only when the reference has none (??
\* in place of ||)
WebSourceKeepsEmptyTitle(web) ==
    [uri |-> web.uri.val,
     title |-> IF IsString(web.title) THEN web.title.val ELSE web.uri.val]

\* the source a web reference that passed the filter is mapped to
WebSource(web) ==
    [uri |-> web.uri.val,
     title |-> IF Truthy(web.title) THEN web.title.val ELSE web.uri.val]

\* groundingChunks.map(gc => gc.web).filter(...).map(...)
RECURSIVE ExtractSources(_)
ExtractSources(webs) ==
    IF webs = <<>> THEN <<>>
    ELSE (IF WebFilter(Head(webs)) THEN << WebSource(Head(webs)) >> ELSE << >>)
         \o ExtractSources(Tail(webs))

\* groundingMetadata?.groundingChunks && groundingMetadata.groundingChunks.length > 0
HasGroundingChunks(resp) ==
    /\ resp.groundingChunks.type = "array"
    /\ Len(resp.groundingChunks.val) > 0

\* SourceCallsOnEnd without the report of an empty list
SourceCallsOnEndOmitsEmpty(resp) ==
    IF resp.type = "null" THEN << >>
    ELSE IF HasGroundingChunks(resp)
    THEN << CallSources(ExtractSources(resp.groundingChunks.val)) >>
    ELSE << >>

\* the onSources invocations of the code after the loop
SourceCallsOnEnd(resp) ==
    IF resp.type = "null" THEN << >>
    ELSE IF HasGroundingChunks(resp)
    THEN << CallSources(ExtractSources(resp.groundingChunks.val)) >>
    ELSE << CallSources(<<>>) >>

\* the onSources invocations of the catch handler
SourceCallsOnError(resp) ==
    IF resp.type = "null" THEN << >>
    ELSE IF HasGroundingChunks(resp)
    THEN << CallSources(ExtractSources(resp.groundingChunks.val)) >>
    ELSE << >>

ContextEnd ==
    /\ pc = "streaming"
    /\ op = "context"
    /\ calls' = calls \o SourceCallsOnEnd(finalApiResponse)
    /\ pc' = "returned"
    /\ result' = [kind |-> "text", text |-> accumulatedText]
    /\ UNCHANGED << response, raised, API_KEY, appVars, op, requests, delivered, args, enhanceLocals,
                    streamLocals >>

\* what the catch handler throws for the error it caught
ContextRethrow(err) == err

ContextFail(err) ==
    /\ pc \in {"requesting", "streaming"}
    /\ op = "context"
    /\ calls' = calls \o SourceCallsOnError(finalApiResponse)
    /\ raised' = err
    /\ pc' = "thrown"
    /\ result' = Thrown(ContextRethrow(err))
    /\ UNCHANGED << response, API_KEY, appVars, op, requests, delivered, args, enhanceLocals,
                    streamLocals >>

(***************************************************************************)
(* The two request/response operations.  The response text is modelled by  *)
(* its structure: whether it is wrapped in a code fence, and the document  *)
(* inside, which is either no JSON or a JSON value.  JSON values are       *)
(* tagged records; numbers and booleans keep their literal as a string.    *)
(***************************************************************************)
Absent == [type |-> "absent", val |-> ""]
JNull == [type |-> "null", val |-> ""]
JStr(s) == [type |-> "string", val |-> s]
JNum(s) == [type |-> "number", val |-> s]
JBool(s) == [type |-> "boolean", val |-> s]
JObj(priority, tags) == [type |-> "object", priority |-> priority, tags |-> tags]

NotJson == [type |-> "notjson", val |-> ""]

\* a text with nothing in it (the empty string, or a fence around nothing)
EmptyDoc == [type |-> "empty", val |-> ""]

\* response.text of a request/response call
Fenced(doc) == [type |-> "string", fenced |-> TRUE, doc |-> doc]
Plain(doc) == [type |-> "string", fenced |-> FALSE, doc |-> doc]

\* errors the JavaScript runtime raises inside a handler
RuntimeError(msg) == [type |-> "error", origin |-> "runtime", isError |-> TRUE, message |-> msg]

\* the truthiness of a JSON value
JTruthy(v) ==
    CASE v.type \in {"absent", "null", "notjson", "empty"} -> FALSE
      [] v.type = "string" -> v.val # ""
      [] v.type = "number" -> v.val # "0"
      [] v.type = "boolean" -> v.val = "true"
      [] OTHER -> TRUE

\* response.text.trim() and the code-fence stripping: the document handed to
\* JSON.parse is the inside of the fence when the text has one and the inside
\* is not empty (match[2] is truthy), and the text itself otherwise; a text
\* that keeps its fence is no JSON
FenceStrip(text) ==
    IF text.fenced /\ text.doc.type = "empty" THEN NotJson ELSE text.doc

Ok(v) == [kind |-> "value", value |-> v]
Raise(e) == [kind |-> "throw", error |-> e]

\* JSON.parse
JsonParse(doc) ==
    IF doc.type \in {"notjson", "empty"}
    THEN Raise(RuntimeError("Unexpected token"))
    ELSE Ok(doc)

\* the priority values and tags values a parsed object can carry
PriorityValues ==
    { Absent, JNull, JStr("Low"), JStr("Medium"), JStr("High"), JStr("urgent"),
      JStr(""), JNum("0"), JNum("5"), JBool("true"), JBool("false") }

TagsValues ==
    { Absent, JNull, Arr(<<>>), Arr(<< JStr("a") >>), Arr(<< JNum("1") >>),
      JStr("x"), JNum("0"), JObj(Absent, Absent) }

ParseDocs ==
    { NotJson, EmptyDoc, JNull, JNum("5"), Arr(<<>>) }
    \cup { JObj(p, t) : p \in PriorityValues, t \in TagsValues }

ParseTexts == {Undefined} \cup {Plain(d) : d \in ParseDocs} \cup {Fenced(d) : d \in ParseDocs}

\* the response texts the pending request of the parse call can resolve with
ParseResponses == IF pc = "requesting" /\ op = "parse" THEN ParseTexts ELSE {}

\* the coercion of parsedData.priority
CoercePriority(p) ==
    IF JTruthy(p)
    THEN IF p.type = "string" /\ p.val \in {"Low", "Medium", "High"} THEN p ELSE JNull
    ELSE p

\* CoerceTags replacing falsy values only
CoerceTagsFalsyOnly(t) ==
    IF ~JTruthy(t) THEN Arr(<<>>) ELSE t

\* the coercion of parsedData.tags
CoerceTags(t) ==
    IF ~JTruthy(t) \/ t.type # "array" THEN Arr(<<>>) ELSE t

\* the try block of parseTaskStringWithAI from the response on
ParseHandle(text) ==
    IF text.type = "undefined"
    THEN Raise(RuntimeError("Cannot read properties of undefined"))
    ELSE LET parsed == JsonParse(FenceStrip(text))
         IN  IF parsed.kind = "throw" THEN parsed
             ELSE LET parsedData == parsed.value
                  IN  CASE parsedData.type = "null" ->
                             Raise(RuntimeError("Cannot read properties of null"))
                        [] parsedData.type \in {"string", "number", "boolean"} ->
                             Raise(RuntimeError("Cannot create property 'tags'"))
                        [] parsedData.type = "array" ->
                             Ok([type |-> "array", val |-> parsedData.val,
                                 priority |-> Absent, tags |-> Arr(<<>>)])
                        [] OTHER ->
                             Ok(JObj(CoercePriority(parsedData.priority),
                                     CoerceTags(parsedData.tags)))

\* what the catch handler of parseTaskStringWithAI throws for the error it caught
ParseRethrow(err) ==
    NewError("Failed to parse task with AI."
             \o (IF err.isError THEN " Details: " \o err.message ELSE ""))

\* (the task string goes into the prompt only)
ParseCall ==
    /\ pc = "idle"
    /\ op' = "parse"
    /\ IF ~Truthy(API_KEY)
       THEN /\ pc' = "thrown"
            /\ result' = Thrown(MissingKeyError)
            /\ UNCHANGED requests
       ELSE /\ pc' = "requesting"
            /\ requests' = requests + 1
            /\ UNCHANGED result
    /\ UNCHANGED << response, raised, API_KEY, appVars, delivered, calls, args, enhanceLocals,
                    streamLocals >>

\* the await of generateContent resolves with a response
ParseRespond(text) ==
    /\ pc = "requesting"
    /\ op = "parse"
    /\ response' = text
    /\ LET done == ParseHandle(text)
       IN  IF done.kind = "throw"
           THEN /\ pc' = "thrown"
                /\ result' = Thrown(ParseRethrow(done.error))
           ELSE /\ pc' = "returned"
                /\ result' = [kind |-> "parsed", value |-> done.value]
    /\ UNCHANGED << raised, API_KEY, appVars, op, requests, delivered, calls, args, enhanceLocals,
                    streamLocals >>

\* the transport raises err
ParseFail(err) ==
    /\ pc = "requesting"
    /\ op = "parse"
    /\ raised' = err
    /\ pc' = "thrown"
    /\ result' = Thrown(ParseRethrow(err))
    /\ UNCHANGED << response, API_KEY, appVars, op, requests, delivered, calls, args, enhanceLocals,
                    streamLocals >>

(***************************************************************************)
(* suggestTagsWithAI                                                       *)
(***************************************************************************)
\* String.prototype.toLowerCase, on the letters tags are made of
LowerChar(c) ==
    CASE c = "A" -> "a"
      [] c = "B" -> "b"
      [] OTHER -> c

RECURSIVE ToLowerCase(_)
ToLowerCase(s) ==
    IF Len(s) = 0 THEN ""
    ELSE LowerChar(CharAt(s, 1)) \o ToLowerCase(Tail(s))

\* replace(/\s+/g, '-'): every maximal run of white space becomes one hyphen
RECURSIVE ReplaceSpaceRuns(_)
ReplaceSpaceRuns(s) ==
    IF Len(s) = 0 THEN ""
    ELSE IF IsSpace(CharAt(s, 1))
    THEN "-" \o ReplaceSpaceRuns(TrimStart(s))
    ELSE CharAt(s, 1) \o ReplaceSpaceRuns(Tail(s))

\* NormalizeTag without the lower-casing
NormalizeTagKeepsCase(tag) == ReplaceSpaceRuns(tag)

NormalizeTag(tag) == ReplaceSpaceRuns(ToLowerCase(tag))

RECURSIVE NormalizeTags(_)
NormalizeTags(items) ==
    IF items = <<>> THEN <<>>
    ELSE << NormalizeTag(Head(items).val) >> \o NormalizeTags(Tail(items))

\* the elements a tags array of the model can carry
TagItems ==
    { JStr("a"), JStr("A B"), JStr("a  b"), JStr(" B"), JStr("a \nB"), JStr(""),
      JNum("1") }

\* tags arrays one response carries at most
MaxTags == 2

TagDocs ==
    { NotJson, EmptyDoc, JNull, JNum("5"), JStr("a"), JObj(Absent, Absent) }
    \cup { Arr(l) : l \in ListsUpTo(TagItems, MaxTags) }

TagTexts == {Undefined} \cup {Plain(d) : d \in TagDocs} \cup {Fenced(d) : d \in TagDocs}

\* the response texts the pending request of the tags call can resolve with
TagResponses == IF pc = "requesting" /\ op = "tags" THEN TagTexts ELSE {}

\* TagsHandle answering a text that is no JSON with the empty list
TagsHandleSwallowsSyntaxError(text) ==
    IF text.type = "undefined"
    THEN Raise(RuntimeError("Cannot read properties of undefined"))
    ELSE LET parsed == JsonParse(FenceStrip(text))
         IN  IF parsed.kind = "throw" THEN Ok(<<>>)
             ELSE LET parsedTags == parsed.value
                  IN  IF /\ parsedTags.type = "array"
                         /\ \A i \in 1..Len(parsedTags.val) :
                                parsedTags.val[i].type = "string"
                      THEN Ok(NormalizeTags(parsedTags.val))
                      ELSE Ok(<<>>)

\* the try block of suggestTagsWithAI from the response on
TagsHandle(text) ==
    IF text.type = "undefined"
    THEN Raise(RuntimeError("Cannot read properties of undefined"))
    ELSE LET parsed == JsonParse(FenceStrip(text))
         IN  IF parsed.kind = "throw" THEN parsed
             ELSE LET parsedTags == parsed.value
                  IN  IF /\ parsedTags.type = "array"
                         /\ \A i \in 1..Len(parsedTags.val) :
                                parsedTags.val[i].type = "string"
                      THEN Ok(NormalizeTags(parsedTags.val))
                      ELSE Ok(<<>>)

\* what the catch handler of suggestTagsWithAI throws for the error it caught
TagsRethrow(err) == NewError("Failed to suggest tags with AI.")

\* TagsCall without the credential check
TagsCallUnchecked ==
    /\ pc = "idle"
    /\ op' = "tags"
    /\ pc' = "requesting"
    /\ requests' = requests + 1
    /\ UNCHANGED << response, raised, result, API_KEY, appVars, delivered, calls, args,
                    enhanceLocals, streamLocals >>

TagsCall ==
    /\ pc = "idle"
    /\ op' = "tags"
    /\ IF ~Truthy(API_KEY)
       THEN /\ pc' = "thrown"
            /\ result' = Thrown(MissingKeyError)
            /\ UNCHANGED requests
       ELSE /\ pc' = "requesting"
            /\ requests' = requests + 1
            /\ UNCHANGED result
    /\ UNCHANGED << response, raised, API_KEY, appVars, delivered, calls, args, enhanceLocals,
                    streamLocals >>

TagsRespond(text) ==
    /\ pc = "requesting"
    /\ op = "tags"
    /\ response' = text
    /\ LET done == TagsHandle(text)
       IN  IF done.kind = "throw"
           THEN /\ pc' = "thrown"
                /\ result' = Thrown(TagsRethrow(done.error))
           ELSE /\ pc' = "returned"
                /\ result' = [kind |-> "tags", tags |-> done.value]
    /\ UNCHANGED << raised, API_KEY, appVars, op, requests, delivered, calls, args, enhanceLocals,
                    streamLocals >>

TagsFail(err) ==
    /\ pc = "requesting"
    /\ op = "tags"
    /\ raised' = err
    /\ pc' = "thrown"
    /\ result' = Thrown(TagsRethrow(err))
    /\ UNCHANGED << response, API_KEY, appVars, op, requests, delivered, calls, args, enhanceLocals,
                    streamLocals >>

Next ==
    \/ ParseCall
    \/ \E text \in ParseResponses : ParseRespond(text)
    \/ \E err \in TransportErrors : ParseFail(err)
    \/ \E t \in Titles, d \in Descriptions : EnhanceCall(t, d)
    \/ StreamOpen
    \/ \E text \in NextTexts : EnhanceChunk(text)
    \/ EnhanceEnd
    \/ \E err \in TransportErrors : EnhanceFail(err)
    \/ TagsCall
    \/ \E text \in TagResponses : TagsRespond(text)
    \/ \E err \in TransportErrors : TagsFail(err)
    \/ SubTasksCall
    \/ \E text \in ForwardTexts : SubTasksChunk(text)
    \/ SubTasksEnd
    \/ \E err \in TransportErrors : SubTasksFail(err)
    \/ ContextCall
    \/ \E text \in ContextTexts, grounding \in NextGroundings :
           ContextChunk(text, grounding)
    \/ ContextEnd
    \/ \E err \in TransportErrors : ContextFail(err)

Spec == Init /\ [][Next]_vars

(***************************************************************************)
(* The user interface: App (src/unnamed/part_003), Header, Modal and       *)
(* TaskForm.  A task is a record of the fields the handlers read or write; *)
(* ids are numbers: those of stored tasks are above StoredIdBase, those    *)
(* generateId hands out count up from 1.                                   *)
(***************************************************************************)
\* tasks one stored list carries at most
MaxStored == 1

\* tasks created through the form at most
MaxCreated == 1

\* TaskForm instances mounted at most
MaxForms == 2

StoredIdBase == 100

Statuses == {"To Do", "In Progress", "Done"}

Task(id, title, status, tags, sources) ==
    [type |-> "object", id |-> id, title |-> title, status |-> status,
     tags |-> tags, contextualSources |-> sources]

\* some JSON object that is no array
SomeObject == JObj(Absent, Absent)

\* the tags and contextualSources one stored task can carry: both lists, both
\* missing, null tags with sources that are an object, tags that are a string
StoredShapes ==
    { << Arr(<< JStr("a") >>), Arr(<<>>) >>,
      << Absent, Absent >>,
      << JNull, SomeObject >>,
      << JStr("x"), Arr(<<>>) >> }

\* the elements the stored list can carry at position i: a task, or null
StoredElements(i) ==
    { Task(StoredIdBase + i, "t", "To Do", shape[1], shape[2]) : shape \in StoredShapes }
    \cup { JNull }

RECURSIVE StoredLists(_)
StoredLists(n) ==
    IF n = 0 THEN { <<>> }
    ELSE LET shorter == StoredLists(n - 1)
         IN  shorter \cup { Append(l, e) : l \in { x \in shorter : Len(x) = n - 1 },
                                           e \in StoredElements(n) }

\* what localStorage.getItem('zenithTasks') returns: null, or a string
Stored(doc) == [type |-> "string", doc |-> doc]

SavedValues ==
    { Null, Stored(EmptyDoc), Stored(NotJson), Stored(JNull), Stored(SomeObject) }
    \cup { Stored(Arr(l)) : l \in StoredLists(MaxStored) }

\* the three tasks of a first start
DefaultTasks ==
    << Task(1, "Welcome to TaskMaster AI!", "To Do", Arr(<< JStr("guide") >>), Arr(<<>>)),
       Task(2, "Submit weekly report", "To Do", Arr(<< JStr("work") >>), Arr(<<>>)),
       Task(3, "Plan weekend trip", "To Do", Arr(<< JStr("personal") >>), Arr(<<>>)) >>

\* value || []
OrEmptyArray(value) == IF JTruthy(value) THEN value ELSE Arr(<<>>)

\* the mapping of one parsed task: a null element has no tags to read
WithArrays(task) ==
    [task EXCEPT !.tags = OrEmptyArray(task.tags),
                 !.contextualSources = OrEmptyArray(task.contextualSources)]

\* the initializer of App's tasks state
LoadTasks(saved) ==
    IF saved.type = "null" \/ saved.doc.type = "empty"
    THEN DefaultTasks
    ELSE LET parsed == JsonParse(saved.doc)
         IN  IF parsed.kind = "throw" THEN <<>>
             ELSE IF parsed.value.type # "array" THEN <<>>
             ELSE IF \E i \in 1..Len(parsed.value.val) : parsed.value.val[i].type = "null"
             THEN <<>>
             ELSE [i \in 1..Len(parsed.value.val) |-> WithArrays(parsed.value.val[i])]

\* JSON.stringify(tasks) as App's effect on [tasks] stores it (every field of
\* a task of the model has a value, so none is dropped)
Persisted(list) == Stored(Arr(list))

\* the ids in use after construction: those of the default tasks, if any
FirstGenerated(saved) ==
    IF saved.type = "null" \/ saved.doc.type = "empty" THEN Len(DefaultTasks) ELSE 0

\* the service layer while the user interface runs: its calls are
\* represented by their outcomes
ServiceNotCalled ==
    /\ op = "none"
    /\ pc = "idle"
    /\ requests = 0
    /\ delivered = <<>>
    /\ currentTitle = ""
    /\ currentDescription = ""
    /\ accumulatedResponseText = ""
    /\ finalTitle = ""
    /\ finalDescription = ""
    /\ titleSent = FALSE
    /\ firstNewlineIndex = -1
    /\ accumulatedText = ""
    /\ finalApiResponse = Null
    /\ calls = <<>>
    /\ response = Null
    /\ raised = Null
    /\ result = NoResult

\* App, Header and the closed Modal after their construction
AppConstructed(saved) ==
    /\ savedTasks = saved
    /\ tasks = LoadTasks(saved)
    /\ zenithTasks = Persisted(LoadTasks(saved))
    /\ generated = FirstGenerated(saved)
    /\ isModalOpen = FALSE
    /\ editingTask = Null
    /\ aiSuggestedTask = Null
    /\ error = Null
    /\ isSubmitting = FALSE
    /\ timers = <<>>
    /\ crashed = FALSE
    /\ nlpInput = ""
    /\ isProcessingAi = FALSE
    /\ taskString = Null
    /\ formKey = 0
    /\ formTitle = ""
    /\ formTags = ""
    /\ formStatus = "To Do"
    /\ formSources = Arr(<<>>)
    /\ isEnhancingAi = FALSE
    /\ isSuggestingTags = FALSE
    /\ isSuggestingSubtasks = FALSE
    /\ isFetchingContext = FALSE
    /\ enhancementError = Null
    /\ tagsError = Null
    /\ subtasksError = Null
    /\ contextError = Null
    /\ aiCalls = {}
    /\ writes = <<>>

AppInit ==
    /\ API_KEY \in {Undefined, Str("k")}
    /\ ServiceNotCalled
    /\ \E saved \in SavedValues : AppConstructed(saved)

(***************************************************************************)
(* TaskForm's effect and App's modal handlers.                             *)
(***************************************************************************)
isAnyAiLoading ==
    isEnhancingAi \/ isSuggestingTags \/ isSuggestingSubtasks \/ isFetchingContext

\* tags?.join(', ') || '' cannot be evaluated: tags has no join method
JoinFails(tagsValue) == JTruthy(tagsValue) /\ tagsValue.type # "array"

\* Array.prototype.join(', ') on a list of strings
RECURSIVE Join(_)
Join(items) ==
    IF items = <<>> THEN ""
    ELSE IF Len(items) = 1 THEN items[1]
    ELSE items[1] \o ", " \o Join(Tail(items))

\* the strings of a JSON list of strings
RECURSIVE StringsOf(_)
StringsOf(items) ==
    IF items = <<>> THEN <<>> ELSE << Head(items).val >> \o StringsOf(Tail(items))

\* tags?.join(', ') || ''
JoinTags(tagsValue) ==
    IF JTruthy(tagsValue) THEN Join(StringsOf(tagsValue.val)) ELSE ""

\* title || ''
OrEmptyString(value) == IF JTruthy(value) THEN value.val ELSE ""

resetFormErrors ==
    /\ enhancementError' = Null
    /\ tagsError' = Null
    /\ subtasksError' = Null
    /\ contextError' = Null

\* the fields of a TaskForm that shows neither a task nor a suggestion, which
\* are also the values kept for the fields while no TaskForm is mounted
FieldsReset ==
    /\ formTitle' = ""
    /\ formTags' = ""
    /\ formStatus' = "To Do"
    /\ formSources' = Arr(<<>>)

\* the effect of TaskForm on [task, aiSuggestion]; an error it raises is
\* caught nowhere and unmounts the application
FormEffect(task, aiSuggestion) ==
    /\ resetFormErrors
    /\ IF task.type # "null"
       THEN IF JoinFails(task.tags)
            THEN /\ crashed' = TRUE
                 /\ FieldsReset
            ELSE /\ formTitle' = task.title
                 /\ formStatus' = task.status
                 /\ formTags' = JoinTags(task.tags)
                 /\ formSources' = OrEmptyArray(task.contextualSources)
                 /\ UNCHANGED crashed
       ELSE IF aiSuggestion.type # "null"
       THEN /\ formTitle' = OrEmptyString(aiSuggestion.title)
            /\ formTags' = JoinTags(aiSuggestion.tags)
            /\ formStatus' = "To Do"
            /\ formSources' = Arr(<<>>)
            /\ UNCHANGED crashed
       ELSE /\ FieldsReset
            /\ UNCHANGED crashed

FlagsCleared ==
    /\ isEnhancingAi' = FALSE
    /\ isSuggestingTags' = FALSE
    /\ isSuggestingSubtasks' = FALSE
    /\ isFetchingContext' = FALSE

\* what the render after setEditingTask(task), setAiSuggestedTask(suggestion)
\* and setIsModalOpen(TRUE) does to TaskForm: Modal mounts a new instance when
\* it was closed; a mounted instance runs its effect when a dependency changed
\* (a suggestion is a new object every time)
FormShown(task, aiSuggestion) ==
    IF ~isModalOpen
    THEN /\ formKey' = formKey + 1
         /\ FlagsCleared
         /\ FormEffect(task, aiSuggestion)
    ELSE /\ UNCHANGED << formKey, formFlags >>
         /\ IF task # editingTask \/ aiSuggestion.type # "null" \/ aiSuggestedTask.type # "null"
            THEN FormEffect(task, aiSuggestion)
            ELSE UNCHANGED << formFields, formErrors, crashed >>

\* Modal renders nothing: the TaskForm instance is unmounted and its state is gone
FormHidden ==
    /\ FlagsCleared
    /\ resetFormErrors
    /\ FieldsReset
    /\ writes' = <<>>

\* the three setters openModalForNew, openModalForEdit and
\* openModalWithAISuggestion share
OpenModal(task, aiSuggestion) ==
    /\ editingTask' = task
    /\ aiSuggestedTask' = aiSuggestion
    /\ isModalOpen' = TRUE
    /\ error' = Null
    /\ FormShown(task, aiSuggestion)

\* a new TaskForm instance can still be mounted within the bound
CanShow == isModalOpen \/ formKey < MaxForms

openModalForNew ==
    /\ ~crashed
    /\ CanShow
    /\ OpenModal(Null, Null)
    /\ UNCHANGED << serviceVars, savedTasks, zenithTasks, tasks, isSubmitting, timers, generated,
                    headerState, aiCalls, writes >>

openModalForEdit(task) ==
    /\ ~crashed
    /\ CanShow
    /\ OpenModal(task, Null)
    /\ UNCHANGED << serviceVars, savedTasks, zenithTasks, tasks, isSubmitting, timers, generated,
                    headerState, aiCalls, writes >>

\* App.closeModal
closeModal ==
    /\ isModalOpen' = FALSE
    /\ editingTask' = Null
    /\ aiSuggestedTask' = Null
    /\ error' = Null
    /\ FormHidden

\* Modal's ways to onClose: the Escape key, a click on the backdrop, the X button
ModalClose ==
    /\ ~crashed
    /\ isModalOpen
    /\ closeModal
    /\ UNCHANGED << serviceVars, savedTasks, zenithTasks, tasks, isSubmitting, timers, generated,
                    crashed, headerState, formKey, aiCalls >>

\* TaskForm's Cancel button
FormCancel ==
    /\ ~crashed
    /\ isModalOpen
    /\ ~(isSubmitting \/ isAnyAiLoading)
    /\ closeModal
    /\ UNCHANGED << serviceVars, savedTasks, zenithTasks, tasks, isSubmitting, timers, generated,
                    crashed, headerState, formKey, aiCalls >>

(***************************************************************************)
(* The form's fields and its save.                                         *)
(***************************************************************************)
\* pending saves at most
MaxTimers == 1

\* the id of the data of a new task: undefined
NoId == 0

\* the user types a title (the input is disabled while something is loading)
SetTitle(text) ==
    /\ ~crashed
    /\ isModalOpen
    /\ ~(isAnyAiLoading \/ isSubmitting)
    /\ formTitle' = text
    /\ UNCHANGED << serviceVars, savedTasks, zenithTasks, appState, timers, generated, crashed,
                    headerState, formKey, formTags, formStatus, formSources, formFlags,
                    formErrors, aiCalls, writes >>

\* String.prototype.split(',')
RECURSIVE Split(_)
Split(text) ==
    LET idx == IndexOf(text, ",")
    IN  IF idx = -1 THEN << text >>
        ELSE << Substring(text, 0, idx) >> \o Split(SubstringFrom(text, idx + 1))

\* the non-empty strings of a list, each as a JSON string
RECURSIVE NonEmpty(_)
NonEmpty(items) ==
    IF items = <<>> THEN <<>>
    ELSE (IF Head(items) # "" THEN << JStr(Head(items)) >> ELSE <<>>)
         \o NonEmpty(Tail(items))

\* tags.split(',').map(tag => tag.trim().toLowerCase().replace(/\s+/g, '-'))
\*     .filter(tag => tag)
FinalTags(text) ==
    LET parts == Split(text)
    IN  Arr(NonEmpty([i \in 1..Len(parts) |-> NormalizeTag(Trim(parts[i]))]))

\* the taskData TaskForm.handleSubmit passes to onSubmit, with the arrays
\* handleFormSubmit ensures
DataToSave ==
    [id |-> IF editingTask.type # "null" THEN editingTask.id ELSE NoId,
     title |-> formTitle,
     status |-> IF editingTask.type # "null" THEN formStatus ELSE "To Do",
     tags |-> OrEmptyArray(FinalTags(formTags)),
     contextualSources |-> OrEmptyArray(formSources)]

\* the ids the pending saves will still ask generateId for
RECURSIVE PendingNew(_)
PendingNew(pending) ==
    IF pending = <<>> THEN 0
    ELSE (IF Head(pending).dataToSave.id = NoId THEN 1 ELSE 0) + PendingNew(Tail(pending))

\* the Submit button of TaskForm: handleSubmit, then App.handleFormSubmit up
\* to the setTimeout; the callback closes over the tasks of this render
handleFormSubmit ==
    /\ ~crashed
    /\ isModalOpen
    /\ ~(isSubmitting \/ isAnyAiLoading)
    /\ Trim(formTitle) # ""
    /\ Len(timers) < MaxTimers
    /\ generated + PendingNew(timers) < FirstGenerated(savedTasks) + MaxCreated
    /\ error' = Null
    /\ isSubmitting' = TRUE
    /\ timers' = Append(timers, [dataToSave |-> DataToSave, tasks |-> tasks])
    /\ UNCHANGED << serviceVars, savedTasks, zenithTasks, tasks, isModalOpen, editingTask,
                    aiSuggestedTask, generated, crashed, headerState, formKey,
                    formFields, formFlags, formErrors, aiCalls, writes >>

\* the task list the setTimeout callback sets: computed from the tasks the
\* callback closed over
CommitTasks(timer) ==
    LET data == timer.dataToSave
        closed == timer.tasks
    IN  IF data.id # NoId
        THEN [i \in 1..Len(closed) |->
                 IF closed[i].id = data.id
                 THEN [closed[i] EXCEPT !.title = data.title, !.status = data.status,
                                        !.tags = data.tags,
                                        !.contextualSources = data.contextualSources]
                 ELSE closed[i]]
        ELSE << Task(generated + 1, data.title, "To Do", data.tags,
                     data.contextualSources) >> \o closed

\* the setTimeout callback of the oldest pending save runs
SaveCommit ==
    /\ ~crashed
    /\ timers # << >>
    /\ tasks' = CommitTasks(Head(timers))
    /\ generated' = generated + (IF Head(timers).dataToSave.id = NoId THEN 1 ELSE 0)
    /\ timers' = Tail(timers)
    /\ closeModal
    /\ isSubmitting' = FALSE
    /\ zenithTasks' = Persisted(tasks')
    /\ UNCHANGED << serviceVars, savedTasks, crashed, headerState, formKey, aiCalls >>

\* the ids of the tasks shown
TaskIds == { tasks[i].id : i \in 1..Len(tasks) }

\* tasks.filter(t => t.id !== taskId), the user having confirmed
handleDeleteTask(taskId) ==
    /\ ~crashed
    /\ taskId \in TaskIds
    /\ tasks' = SelectSeq(tasks, LAMBDA t : t.id # taskId)
    /\ zenithTasks' = Persisted(tasks')
    /\ UNCHANGED << serviceVars, savedTasks, isModalOpen, editingTask, aiSuggestedTask,
                    error, isSubmitting, timers, generated, crashed, headerState,
                    formKey, formFields, formFlags, formErrors, aiCalls, writes >>

handleStatusChange(taskId, newStatus) ==
    /\ ~crashed
    /\ taskId \in TaskIds
    /\ tasks' = [i \in 1..Len(tasks) |->
                    IF tasks[i].id = taskId
                    THEN [tasks[i] EXCEPT !.status = newStatus]
                    ELSE tasks[i]]
    /\ zenithTasks' = Persisted(tasks')
    /\ UNCHANGED << serviceVars, savedTasks, isModalOpen, editingTask, aiSuggestedTask,
                    error, isSubmitting, timers, generated, crashed, headerState,
                    formKey, formFields, formFlags, formErrors, aiCalls, writes >>

(***************************************************************************)
(* Header's AI input and App.handleAddTaskWithAi.                          *)
(***************************************************************************)
\* what the user can have typed into the AI input
HeaderTexts == {"", " ", "x"}

\* the input's onChange (the input is disabled while isProcessingAi)
SetNlpInput(text) ==
    /\ ~crashed
    /\ ~isProcessingAi
    /\ nlpInput' = text
    /\ UNCHANGED << serviceVars, savedTasks, zenithTasks, appState, timers, generated, crashed,
                    isProcessingAi, taskString, formKey, formFields, formFlags,
                    formErrors, aiCalls, writes >>

\* the response texts of the parse request the sessions of the model see
AiAddTexts ==
    { Undefined, Plain(NotJson), Plain(Arr(<<>>)),
      Fenced(JObj(JStr("High"), Arr(<< JStr("a") >>))) }

\* what awaiting parseTaskStringWithAI gives: the value or the error of the
\* service for a response text or a transport error
ParseOutcome(done) ==
    IF done.kind = "throw" THEN Raise(ParseRethrow(done.error)) ELSE done

ParseOutcomes ==
    { ParseOutcome(ParseHandle(text)) : text \in AiAddTexts }
    \cup { Raise(ParseRethrow(err)) : err \in TransportErrors }

\* the titles a parsed task can carry (the service model leaves the title out)
ParsedTitles == { Absent, JStr("t") }

\* the AiParsedTask App hands to the form
Suggestion(parsedData, parsedTitle) ==
    [type |-> "object", title |-> parsedTitle, priority |-> parsedData.priority,
     tags |-> parsedData.tags]

\* err instanceof Error ? err.message : fallback
MessageOf(err, fallback) == IF err.isError THEN err.message ELSE fallback

\* the message App shows for an error of the AI add
AiAddError(err) ==
    LET message == MessageOf(err, "An unknown error occurred with AI processing.")
    IN  IF StartsWith(message, "Failed to parse task with AI.")
        THEN Str(message)
        ELSE Str("AI Error: " \o message)

\* handleAddTaskWithAi from the await on, and then what is left of
\* Header.handleAiSubmit: handleAddTaskWithAi catches every error, so the
\* promise Header awaits always fulfils
AiAddSettled(outcome, parsedTitle) ==
    /\ IF outcome.kind = "value"
       THEN /\ OpenModal(Null, Suggestion(outcome.value, parsedTitle))
       ELSE /\ error' = AiAddError(outcome.error)
            /\ UNCHANGED << isModalOpen, editingTask, aiSuggestedTask, crashed,
                            formKey, formFields, formFlags, formErrors >>
    /\ isSubmitting' = FALSE
    /\ nlpInput' = ""
    /\ isProcessingAi' = FALSE
    /\ taskString' = Null

\* the submit of Header's form: Header.handleAiSubmit and
\* App.handleAddTaskWithAi up to the await; without a credential the service
\* rejects at once and both handlers run to their end before any other event
handleAiSubmit ==
    /\ ~crashed
    /\ ~isProcessingAi
    /\ Trim(nlpInput) # ""
    /\ IF ~Truthy(API_KEY)
       THEN AiAddSettled(Raise(MissingKeyError), Absent)
       ELSE /\ isProcessingAi' = TRUE
            /\ taskString' = Str(nlpInput)
            /\ error' = Null
            /\ isSubmitting' = TRUE
            /\ UNCHANGED << nlpInput, isModalOpen, editingTask, aiSuggestedTask, crashed,
                            formKey, formFields, formFlags, formErrors >>
    /\ UNCHANGED << serviceVars, savedTasks, zenithTasks, tasks, timers, generated, aiCalls, writes >>

\* the parse call settles
AiAddSettle(outcome, parsedTitle) ==
    /\ ~crashed
    /\ taskString.type # "null"
    /\ outcome.kind = "value" => CanShow
    /\ AiAddSettled(outcome, parsedTitle)
    /\ UNCHANGED << serviceVars, savedTasks, zenithTasks, tasks, timers, generated, aiCalls, writes >>

(***************************************************************************)
(* TaskForm's four AI actions.  A service call in flight is known by its   *)
(* kind and by the TaskForm instance that started it; what it does to the  *)
(* form is what its callbacks and its settling do, and they do nothing to  *)
(* an instance that is no longer mounted.                                  *)
(***************************************************************************)
AiKinds == {"enhance", "tags", "subtasks", "context"}

AiCall(kind) == [kind |-> kind, form |-> formKey]

\* the TaskForm instance that made the call is the one mounted
Mounted(call) == isModalOpen /\ call.form = formKey

SetLoading(kind, value) ==
    /\ isEnhancingAi' = (IF kind = "enhance" THEN value ELSE isEnhancingAi)
    /\ isSuggestingTags' = (IF kind = "tags" THEN value ELSE isSuggestingTags)
    /\ isSuggestingSubtasks' = (IF kind = "subtasks" THEN value ELSE isSuggestingSubtasks)
    /\ isFetchingContext' = (IF kind = "context" THEN value ELSE isFetchingContext)

SetAiError(kind, value) ==
    /\ enhancementError' = (IF kind = "enhance" THEN value ELSE enhancementError)
    /\ tagsError' = (IF kind = "tags" THEN value ELSE tagsError)
    /\ subtasksError' = (IF kind = "subtasks" THEN value ELSE subtasksError)
    /\ contextError' = (IF kind = "context" THEN value ELSE contextError)

\* the message a handler shows when the error it caught is no Error
Fallback(kind) ==
    CASE kind = "enhance" -> "AI enhancement failed."
      [] kind = "tags" -> "AI tag suggestion failed."
      [] kind = "subtasks" -> "AI sub-task suggestion failed."
      [] kind = "context" -> "AI context fetch failed."

AiError(kind, err) == Str(MessageOf(err, Fallback(kind)))

\* StartAi with buttons that are not disabled while something is loading
StartAiWhileLoading(kind) ==
    /\ ~crashed
    /\ isModalOpen
    /\ formTitle # ""
    /\ formSources' = (IF kind = "context" THEN Arr(<<>>) ELSE formSources)
    /\ IF ~Truthy(API_KEY)
       THEN /\ SetLoading(kind, FALSE)
            /\ SetAiError(kind, AiError(kind, MissingKeyError))
            /\ UNCHANGED aiCalls
       ELSE /\ SetLoading(kind, TRUE)
            /\ SetAiError(kind, Null)
            /\ aiCalls' = aiCalls \cup { AiCall(kind) }
    /\ UNCHANGED << serviceVars, savedTasks, zenithTasks, appState, timers, generated, crashed,
                    headerState, formKey, formTitle, formTags, formStatus, writes >>

\* one of the four AI buttons: the handler up to its await; without a
\* credential the service rejects at once and the handler runs to its end
StartAi(kind) ==
    /\ ~crashed
    /\ isModalOpen
    /\ ~(isAnyAiLoading \/ isSubmitting)
    /\ formTitle # ""
    /\ formSources' = (IF kind = "context" THEN Arr(<<>>) ELSE formSources)
    /\ IF ~Truthy(API_KEY)
       THEN /\ SetLoading(kind, FALSE)
            /\ SetAiError(kind, AiError(kind, MissingKeyError))
            /\ UNCHANGED aiCalls
       ELSE /\ SetLoading(kind, TRUE)
            /\ SetAiError(kind, Null)
            /\ aiCalls' = aiCalls \cup { AiCall(kind) }
    /\ UNCHANGED << serviceVars, savedTasks, zenithTasks, appState, timers, generated, crashed,
                    headerState, formKey, formTitle, formTags, formStatus, writes >>

handleAiEnhance == StartAi("enhance")

handleSuggestTags == StartAi("tags")

handleSuggestSubtasks == StartAi("subtasks")

handleFetchContext == StartAi("context")

\* the callbacks a call of the kind has, by the field of the form they set
CallbackFields(kind) ==
    CASE kind = "enhance" -> {"title", "description"}
      [] kind = "subtasks" -> {"description"}
      [] kind = "context" -> {"description", "contextualSources"}
      [] OTHER -> {}

\* the source lists onSources can deliver
SourceLists == { <<>>, << [uri |-> "http://z", title |-> "Z"] >> }

\* a callback of a call in flight sets a field of the mounted form (the
\* description itself is left out: the record of the write stands for it)
AiCallback(call, field, text, sources) ==
    /\ ~crashed
    /\ call \in aiCalls
    /\ Mounted(call)
    /\ field \in CallbackFields(call.kind)
    /\ writes' = << [call |-> call, field |-> field] >>
    /\ formTitle' = (IF field = "title" THEN text ELSE formTitle)
    /\ formSources' = (IF field = "contextualSources" THEN Arr(sources) ELSE formSources)
    /\ UNCHANGED << serviceVars, savedTasks, zenithTasks, appState, timers, generated, crashed,
                    headerState, formKey, formTags, formStatus, formFlags, formErrors,
                    aiCalls >>

\* the response texts of the tags request the sessions of the model see
TagSuggestTexts == { Plain(NotJson), Plain(Arr(<<>>)), Fenced(Arr(<< JStr("A") >>)) }

TagsOutcome(done) ==
    IF done.kind = "throw" THEN Raise(TagsRethrow(done.error)) ELSE done

\* what awaiting the service call of a kind gives
AiOutcomes(kind) ==
    CASE kind = "tags" ->
             { TagsOutcome(TagsHandle(text)) : text \in TagSuggestTexts }
             \cup { Raise(TagsRethrow(err)) : err \in TransportErrors }
      [] kind = "enhance" ->
             { Ok(<<>>) } \cup { Raise(EnhanceRethrow(err)) : err \in TransportErrors }
      [] kind = "subtasks" ->
             { Ok(<<>>) } \cup { Raise(SubTasksRethrow(err)) : err \in TransportErrors }
      [] kind = "context" ->
             { Ok(<<>>) } \cup { Raise(ContextRethrow(err)) : err \in TransportErrors }

\* the outcomes of the calls in flight
AllAiOutcomes == UNION { AiOutcomes(call.kind) : call \in aiCalls }

\* the strings of a list that are not among the existing ones
RECURSIVE NotIncluded(_, _)
NotIncluded(items, existing) ==
    IF items = <<>> THEN <<>>
    ELSE (IF \E i \in 1..Len(existing) : existing[i] = Head(items)
          THEN <<>> ELSE << Head(items) >>)
         \o NotIncluded(Tail(items), existing)

\* the updater handleSuggestTags hands to setTags
MergeTags(current, suggested) ==
    LET parts == Split(current)
        existingTags == StringsOf(NonEmpty([i \in 1..Len(parts) |-> Trim(parts[i])]))
    IN  Join(existingTags \o NotIncluded(suggested, existingTags))

\* AiSettle leaving the loading flag set when the call failed
AiSettleKeepsFlagOnFailure(call, outcome) ==
    /\ ~crashed
    /\ call \in aiCalls
    /\ outcome \in AiOutcomes(call.kind)
    /\ aiCalls' = aiCalls \ { call }
    /\ IF Mounted(call)
       THEN /\ SetLoading(call.kind, outcome.kind = "throw")
            /\ IF outcome.kind = "throw"
               THEN /\ SetAiError(call.kind, AiError(call.kind, outcome.error))
                    /\ UNCHANGED formTags
               ELSE /\ formTags' = (IF call.kind = "tags"
                                    THEN MergeTags(formTags, outcome.value)
                                    ELSE formTags)
                    /\ UNCHANGED formErrors
       ELSE UNCHANGED << formFlags, formErrors, formTags >>
    /\ UNCHANGED << serviceVars, savedTasks, zenithTasks, appState, timers, generated, crashed,
                    headerState, formKey, formTitle, formStatus, formSources, writes >>

\* the service call settles: what is left of the handler after its await
AiSettle(call, outcome) ==
    /\ ~crashed
    /\ call \in aiCalls
    /\ outcome \in AiOutcomes(call.kind)
    /\ aiCalls' = aiCalls \ { call }
    /\ IF Mounted(call)
       THEN /\ SetLoading(call.kind, FALSE)
            /\ IF outcome.kind = "throw"
               THEN /\ SetAiError(call.kind, AiError(call.kind, outcome.error))
                    /\ UNCHANGED formTags
               ELSE /\ formTags' = (IF call.kind = "tags"
                                    THEN MergeTags(formTags, outcome.value)
                                    ELSE formTags)
                    /\ UNCHANGED formErrors
       ELSE UNCHANGED << formFlags, formErrors, formTags >>
    /\ UNCHANGED << serviceVars, savedTasks, zenithTasks, appState, timers, generated, crashed,
                    headerState, formKey, formTitle, formStatus, formSources, writes >>

(***************************************************************************)
(* The sessions of the application.                                        *)
(***************************************************************************)
\* the user acts on the tasks at the first positions of the list
MaxActed == 1

ActedPositions == { i \in 1..Len(tasks) : i <= MaxActed }

ActedIds == { tasks[i].id : i \in ActedPositions }

\* App with the Modal and the save of the form, started on any stored value
AppNext ==
    \/ openModalForNew
    \/ \E i \in ActedPositions : openModalForEdit(tasks[i])
    \/ ModalClose
    \/ FormCancel
    \/ \E text \in Titles : SetTitle(text)
    \/ handleFormSubmit
    \/ SaveCommit
    \/ \E taskId \in ActedIds : handleDeleteTask(taskId)
    \/ \E taskId \in ActedIds, newStatus \in Statuses : handleStatusChange(taskId, newStatus)

AppSpec == AppInit /\ [][AppNext]_vars

\* Header's AI add beside the form and its save
HeaderNext ==
    \/ \E text \in HeaderTexts : SetNlpInput(text)
    \/ handleAiSubmit
    \/ \E outcome \in ParseOutcomes, parsedTitle \in ParsedTitles :
           AiAddSettle(outcome, parsedTitle)
    \/ openModalForNew
    \/ ModalClose
    \/ FormCancel
    \/ \E text \in Titles : SetTitle(text)
    \/ handleFormSubmit
    \/ SaveCommit

\* the first start of the application: nothing is stored
FormInit ==
    /\ API_KEY \in {Undefined, Str("k")}
    /\ ServiceNotCalled
    /\ AppConstructed(Null)

\* the task form with its AI actions and its save
FormNext ==
    \/ openModalForNew
    \/ ModalClose
    \/ FormCancel
    \/ \E text \in Titles : SetTitle(text)
    \/ handleFormSubmit
    \/ SaveCommit
    \/ handleAiEnhance
    \/ handleSuggestTags
    \/ handleSuggestSubtasks
    \/ handleFetchContext
    \/ \E call \in aiCalls, field \in {"title", "description", "contextualSources"},
          text \in Titles, sources \in SourceLists :
           AiCallback(call, field, text, sources)
    \/ \E call \in aiCalls, outcome \in AllAiOutcomes : AiSettle(call, outcome)

FormSpec == FormInit /\ [][FormNext]_vars

HeaderSpec == FormInit /\ [][HeaderNext]_vars

\* the AI actions of the task form alone
AiNext ==
    \/ openModalForNew
    \/ ModalClose
    \/ FormCancel
    \/ \E text \in Titles : SetTitle(text)
    \/ handleAiEnhance
    \/ handleSuggestTags
    \/ handleSuggestSubtasks
    \/ handleFetchContext
    \/ \E call \in aiCalls, outcome \in AllAiOutcomes : AiSettle(call, outcome)

\* every service call in flight settles in the end
AiFairSpec ==
    /\ FormInit
    /\ [][AiNext]_vars
    /\ WF_vars(\E call \in aiCalls, outcome \in AllAiOutcomes : AiSettle(call, outcome))

(***************************************************************************)
(* Properties of enhanceTaskWithAIStream.                                  *)
(***************************************************************************)
EnhanceReturned == op = "enhance" /\ pc = "returned"

\* the whole text the stream delivered, whatever its fragmentation
StreamText == TextOf(delivered)

\* C1: when the delivered text contains a newline, the returned title is the
\* trimmed text before the first newline and the returned body the trimmed
\* text after it; both are functions of the concatenation alone, so every
\* fragmentation of one text returns the same pair.
C1_SplitAtFirstNewline ==
    (EnhanceReturned /\ IndexOf(StreamText, "\n") # -1) =>
        LET k == IndexOf(StreamText, "\n")
        IN  /\ result.kind = "enhanced"
            /\ result.refinedTitle = Trim(SubSeq(StreamText, 1, k))
            /\ result.refinedDescription = Trim(SubSeq(StreamText, k + 2, Len(StreamText)))

\* a session whose newline arrived at the head of a later fragment, with text
\* on both sides of it
C1_Witness ==
    /\ EnhanceReturned
    /\ Len(delivered) = 2
    /\ delivered[1].text = Str("a")
    /\ delivered[2].text = Str("\na")
    /\ result.refinedTitle = "a"
    /\ result.refinedDescription = "a"

\* C2: when the delivered text contains no newline (the empty stream
\* included), the returned body is empty and the returned title is the trimmed
\* concatenation, whatever title and description the call was given.
C2_NoNewlineTitleOnly ==
    (EnhanceReturned /\ IndexOf(StreamText, "\n") = -1) =>
        /\ result.kind = "enhanced"
        /\ result.refinedDescription = ""
        /\ result.refinedTitle = Trim(StreamText)

\* the empty stream of a call that was given a title and a description
C2_Witness ==
    /\ EnhanceReturned
    /\ delivered = <<>>
    /\ currentTitle = "t"
    /\ currentDescription = "d"
    /\ result.refinedTitle = ""
    /\ result.refinedDescription = ""

\* the notifications the fragments of a chunk sequence cause, one fragment
\* after the other, from the text before and after each
RECURSIVE FragmentCalls(_, _)
FragmentCalls(chunks, n) ==
    IF n = 0 THEN << >>
    ELSE LET before == TextOf(SubSeq(chunks, 1, n - 1))
             after  == TextOf(SubSeq(chunks, 1, n))
             k      == IndexOf(after, "\n")
             these  ==
                 IF ~IsString(chunks[n].text) THEN << >>
                 ELSE IF IndexOf(before, "\n") # -1
                 THEN << Call1("onDescriptionCandidate", SubSeq(after, k + 2, Len(after))) >>
                 ELSE IF k # -1
                 THEN << Call1("onTitleCandidate", Trim(SubSeq(after, 1, k))),
                         Call1("onDescriptionCandidate", SubSeq(after, k + 2, Len(after))) >>
                 ELSE << Call1("onTitleCandidate", Trim(after)) >>
         IN  FragmentCalls(chunks, n - 1) \o these

\* C8: when the transport raises an error after k fragments, the callbacks
\* invoked in the session are exactly those of the first k fragments, nothing
\* is returned, and the error raised reaches the caller.
C8_ErrorKeepsNotifications ==
    (op = "enhance" /\ pc = "thrown" /\ raised.type # "null") =>
        /\ calls = FragmentCalls(delivered, Len(delivered))
        /\ result.kind = "error"
        /\ result.error = raised

\* an error after two fragments, the second of which revealed the newline
C8_Witness ==
    /\ op = "enhance"
    /\ pc = "thrown"
    /\ raised.type # "null"
    /\ Len(delivered) = 2
    /\ Len(calls) = 3
    /\ calls[3] = Call1("onDescriptionCandidate", "a")

(***************************************************************************)
(* Properties of streamContextualInfoWithAI.                               *)
(***************************************************************************)
IsSourcesCall(c) == c.cb = "onSources"

\* the onSources invocations of the session, in order
SourcesCalls == SelectSeq(calls, IsSourcesCall)

\* a uri of the http or https scheme
IsHttpUri(u) == StartsWith(u, "http://") \/ StartsWith(u, "https://")

\* the web references of the retained response
RetainedWebs ==
    IF finalApiResponse.type = "response" /\ finalApiResponse.groundingChunks.type = "array"
    THEN finalApiResponse.groundingChunks.val
    ELSE << >>

\* C3: a stream that completes without any response object still reports an
\* empty source list through onSources, and returns the empty text.
C3_EmptyStreamReportsNoSources ==
    (op = "context" /\ pc = "returned" /\ delivered = <<>>) =>
        /\ calls = << CallSources(<<>>) >>
        /\ result.text = ""

\* C4: every delivered source has a uri of the http or https scheme, and
\* every web reference of the retained response with such a uri is delivered.
C4_OnlyHttpSchemeDelivered ==
    /\ \A i \in 1..Len(calls) : IsSourcesCall(calls[i]) =>
           \A j \in 1..Len(calls[i].sources) : IsHttpUri(calls[i].sources[j].uri)
    /\ (op = "context" /\ pc \in {"returned", "thrown"}) =>
           \A n \in 1..Len(RetainedWebs) :
               LET web == RetainedWebs[n]
               IN  (web.type = "object" /\ IsString(web.uri) /\ IsHttpUri(web.uri.val)) =>
                       \E i \in 1..Len(calls) :
                           /\ IsSourcesCall(calls[i])
                           /\ \E j \in 1..Len(calls[i].sources) :
                                  calls[i].sources[j].uri = web.uri.val

\* the web references of the retained response that pass the filter
PassingWebs == SelectSeq(RetainedWebs, WebFilter)

\* C5: every delivered source keeps the uri of its web reference; its title
\* is the reference's title when that is a non-empty string and the uri
\* otherwise, so no delivered title is empty.
C5_TitleFallsBackToUri ==
    \A i \in 1..Len(calls) : IsSourcesCall(calls[i]) =>
        /\ Len(calls[i].sources) = Len(PassingWebs)
        /\ \A j \in 1..Len(calls[i].sources) :
               LET source == calls[i].sources[j]
                   web    == PassingWebs[j]
               IN  /\ source.uri = web.uri.val
                   /\ source.title =
                          IF web.title.type = "string" /\ web.title.val # ""
                          THEN web.title.val
                          ELSE web.uri.val
                   /\ source.title # ""

\* a reference without a title and one with a title, both delivered
C5_Witness ==
    /\ op = "context"
    /\ pc = "returned"
    /\ Len(SourcesCalls) = 1
    /\ SourcesCalls[1].sources =
           << [uri |-> "https://y", title |-> "https://y"],
              [uri |-> "http://z", title |-> "Z"] >>
    /\ RetainedWebs[1].title.type = "undefined"

\* C6: a session that completes after at least one response object invokes
\* onSources exactly once, as its last callback, and with the empty list when
\* the last response has no grounding chunks or none that passes the filter.
C6_SourcesReportedOnce ==
    (op = "context" /\ pc = "returned" /\ delivered # <<>>) =>
        LET last == delivered[Len(delivered)]
            none == \/ last.groundingChunks.type # "array"
                    \/ \A n \in 1..Len(last.groundingChunks.val) :
                           ~WebFilter(last.groundingChunks.val[n])
        IN  /\ Len(SourcesCalls) = 1
            /\ IsSourcesCall(calls[Len(calls)])
            /\ none => SourcesCalls[1].sources = <<>>

\* a session that forwarded text and whose last response carries no grounding
\* chunks at all
C6_Witness ==
    /\ op = "context"
    /\ pc = "returned"
    /\ Len(delivered) = 2
    /\ delivered[2].groundingChunks.type = "undefined"
    /\ Len(calls) = 3
    /\ calls[3] = CallSources(<<>>)

\* C7: when the stream fails after a response object was retained, onSources
\* is invoked with the list the completion code reports for that response,
\* and the error is raised after it.
C7_FailureExtractsLikeSuccess ==
    (op = "context" /\ pc = "thrown" /\ raised.type # "null"
                    /\ finalApiResponse.type # "null") =>
        /\ SourcesCalls = SourceCallsOnEnd(finalApiResponse)
        /\ result.kind = "error"

(***************************************************************************)
(* Properties of all five operations.                                      *)
(***************************************************************************)
\* C9: with the credential absent (unset or empty), an operation that was
\* called has failed with the missing-credential error, has issued no
\* transport request and has invoked no callback.
C9_MissingCredential ==
    ((API_KEY.type = "undefined" \/ API_KEY.val = "") /\ op # "none") =>
        /\ pc = "thrown"
        /\ result.kind = "error"
        /\ result.error.message = "Gemini API key not configured."
        /\ requests = 0
        /\ calls = <<>>
        /\ delivered = <<>>
        /\ response.type = "null"

\* the sub-task stream called with an empty credential
C9_Witness ==
    /\ API_KEY = Str("")
    /\ op = "subtasks"
    /\ pc = "thrown"
    /\ requests = 0

TransportFailed == pc = "thrown" /\ raised.type # "null"

\* C10 as stated: whatever the operation, the error the transport raised is
\* the error the caller gets.
C10_TransportErrorUnchanged ==
    TransportFailed => (result.kind = "error" /\ result.error = raised)

\* C10 as amended: the three streaming operations hand the caller the error
\* the transport raised; parseTaskStringWithAI and suggestTagsWithAI hand it a
\* new error of their own, with the transport error's message appended after
\* " Details: " by the first when it is an Error and dropped by the second.
C10_TransportErrorPerOperation ==
    TransportFailed =>
        /\ result.kind = "error"
        /\ op \in StreamOps => result.error = raised
        /\ op = "parse" =>
               /\ result.error.origin = "service"
               /\ result.error.message =
                      IF raised.isError
                      THEN "Failed to parse task with AI. Details: " \o raised.message
                      ELSE "Failed to parse task with AI."
        /\ op = "tags" =>
               /\ result.error.origin = "service"
               /\ result.error.message = "Failed to suggest tags with AI."

\* the sub-task stream failing after a chunk was forwarded
C10_Witness ==
    /\ op = "subtasks"
    /\ TransportFailed
    /\ Len(calls) = 1
    /\ raised.isError
    /\ result.error = raised

(***************************************************************************)
(* Properties of parseTaskStringWithAI and suggestTagsWithAI.              *)
(***************************************************************************)
\* the request of the parse call or the tags call resolved with a text
Responded(o) == op = o /\ pc \in {"returned", "thrown"} /\ response.type = "string"

\* the document JSON.parse is handed
ResponseDoc == FenceStrip(response)

IsStringArray(doc) ==
    /\ doc.type = "array"
    /\ \A i \in 1..Len(doc.val) : doc.val[i].type = "string"

\* C11 as stated: a response text that, after fence stripping, is not a JSON
\* object (parse call) or not a JSON array of strings (tags call) makes the
\* call fail instead of returning a value.
C11_WrongShapeFails ==
    /\ (Responded("parse") /\ ResponseDoc.type # "object") => pc = "thrown"
    /\ (Responded("tags") /\ ~IsStringArray(ResponseDoc)) => pc = "thrown"

\* C11 amended: a response text that, after fence stripping, is no JSON at
\* all makes the parse call and the tags call fail with their own error
\* instead of returning a value; JSON of another shape than the expected one
\* is not always rejected: the tags call returns the empty list for it, and
\* the parse call returns a JSON array.
C11_NoJsonFails ==
    /\ (Responded("parse") /\ ResponseDoc.type \in {"notjson", "empty"}) =>
           /\ pc = "thrown"
           /\ result = Thrown(NewError("Failed to parse task with AI. Details: Unexpected token"))
    /\ (Responded("tags") /\ ResponseDoc.type \in {"notjson", "empty"}) =>
           /\ pc = "thrown"
           /\ result = Thrown(NewError("Failed to suggest tags with AI."))
    /\ ( /\ Responded("tags")
         /\ ResponseDoc.type \notin {"notjson", "empty"}
         /\ ~IsStringArray(ResponseDoc) ) =>
           /\ pc = "returned"
           /\ result.tags = <<>>
    /\ (Responded("parse") /\ ResponseDoc.type = "array") => pc = "returned"

C11_Witness ==
    /\ Responded("tags")
    /\ response = Fenced(NotJson)
    /\ pc = "thrown"

ParseReturned == op = "parse" /\ pc = "returned"

AcceptedPriorities == { JStr("Low"), JStr("Medium"), JStr("High") }

\* C12: parseTaskStringWithAI never returns a priority other than one of the
\* three accepted literals or null/absent: every other priority value of the
\* response, of whatever type, is coerced to an absent value.
C12_PriorityCoerced ==
    ParseReturned => result.value.priority \in AcceptedPriorities \cup {Absent, JNull}

\* the tags member of the parsed response (an array has none)
ResponseTags == IF ResponseDoc.type = "object" THEN ResponseDoc.tags ELSE Absent

\* C13: the tags parseTaskStringWithAI returns are always a list: a missing,
\* null or non-list tags value of the response is replaced by the empty list,
\* and a list the response supplies is returned unchanged.
C13_TagsAlwaysList ==
    ParseReturned =>
        /\ result.value.tags.type = "array"
        /\ result.value.tags =
              (IF ResponseTags.type = "array" THEN ResponseTags ELSE Arr(<<>>))

C13_Witness ==
    /\ ParseReturned
    /\ ResponseTags = JStr("x")
    /\ result.value.tags = Arr(<<>>)

TagsReturned == op = "tags" /\ pc = "returned"

\* what each tag of the model is expected to become
ExpectedTag(tag) ==
    CASE tag = "a" -> "a"
      [] tag = "A B" -> "a-b"
      [] tag = "a  b" -> "a-b"
      [] tag = " B" -> "-b"
      [] tag = "a \nB" -> "a-b"
      [] tag = "" -> ""

HasCharIn(s, chars) == \E i \in 1..Len(s) : CharAt(s, i) \in chars

\* C14: for a response that is an array of strings, suggestTagsWithAI returns
\* a list of the same length and order in which each element is the
\* lower-cased tag with every maximal run of white space replaced by exactly
\* one hyphen; no returned tag contains white space or an upper-case letter.
C14_TagsNormalized ==
    (TagsReturned /\ Responded("tags") /\ IsStringArray(ResponseDoc)) =>
        /\ Len(result.tags) = Len(ResponseDoc.val)
        /\ \A i \in 1..Len(result.tags) :
              /\ result.tags[i] = ExpectedTag(ResponseDoc.val[i].val)
              /\ ~HasCharIn(result.tags[i], {" ", "\n", "A", "B"})

C14_Witness ==
    /\ TagsReturned
    /\ response = Fenced(Arr(<< JStr("A B"), JStr("a \nB") >>))
    /\ result.tags = << "a-b", "a-b" >>

(***************************************************************************)
(* Properties of the two forwarding streams.                               *)
(***************************************************************************)
IsOnChunkCall(c) == c.cb = "onChunk"

\* the onChunk invocations of the session, in order
OnChunkCalls == SelectSeq(calls, IsOnChunkCall)

IsTextChunk(c) == IsString(c.text)

\* the delivered fragments that carry a text, in order
TextFragments == SelectSeq(delivered, IsTextChunk)

RECURSIVE ConcatTexts(_)
ConcatTexts(cs) ==
    IF cs = <<>> THEN "" ELSE Head(cs).text \o ConcatTexts(Tail(cs))

\* C15: in streamSubTasksWithAI and streamContextualInfoWithAI, onChunk is
\* invoked exactly once per text fragment, in order, with the fragment
\* unchanged; the returned string is the concatenation of all values passed
\* to onChunk; fragments without a text cause no invocation and add nothing.
C15_ChunksForwardedInOrder ==
    op \in {"subtasks", "context"} =>
        /\ Len(OnChunkCalls) = Len(TextFragments)
        /\ \A i \in 1..Len(OnChunkCalls) :
              OnChunkCalls[i].text = TextFragments[i].text.val
        /\ pc = "returned" =>
              /\ result.kind = "text"
              /\ result.text = ConcatTexts(OnChunkCalls)

C15_Witness ==
    /\ op = "subtasks"
    /\ pc = "returned"
    /\ Len(delivered) = 3
    /\ delivered[1].text = Str("b")
    /\ delivered[2].text = Undefined
    /\ delivered[3].text = Str("a")
    /\ Len(calls) = 2
    /\ result.text = "ba"

(***************************************************************************)
(* Properties of the loop of enhanceTaskWithAIStream.                      *)
(***************************************************************************)
IsTitleCall(c) == c.cb = "onTitleCandidate"
IsBodyCall(c) == c.cb = "onDescriptionCandidate"

\* the title and the body notifications of the session, in order
TitleCalls == SelectSeq(calls, IsTitleCall)
BodyCalls == SelectSeq(calls, IsBodyCall)

Last(seq) == seq[Len(seq)]

\* the loop of the enhance call has just absorbed a fragment that carries a text
FragmentAbsorbed ==
    /\ op = "enhance"
    /\ pc = "streaming"
    /\ delivered # <<>>
    /\ IsString(Last(delivered).text)

\* C16: after each text fragment the enhance loop absorbs: when the text
\* accumulated so far has no newline, the title callback has just been
\* invoked with the trimmed accumulated text and the body callback has not
\* been invoked in the session; when it has one, the latest title
\* notification is the trimmed text before the first newline and the latest
\* body notification is the untrimmed text after it.
C16_LoopNotifications ==
    FragmentAbsorbed =>
        LET acc == StreamText
            idx == IndexOf(acc, "\n")
        IN  IF idx = -1
            THEN /\ calls # <<>>
                 /\ Last(calls) = Call1("onTitleCandidate", Trim(acc))
                 /\ BodyCalls = <<>>
            ELSE /\ TitleCalls # <<>>
                 /\ Last(TitleCalls).text = Trim(Substring(acc, 0, idx))
                 /\ BodyCalls # <<>>
                 /\ Last(BodyCalls).text = SubstringFrom(acc, idx + 1)

C16_Witness ==
    /\ FragmentAbsorbed
    /\ Len(delivered) = 2
    /\ StreamText = " \n "
    /\ Last(TitleCalls).text = ""
    /\ Last(BodyCalls).text = " "

\* the notifications of the loop, before the completion
LoopCalls == FragmentCalls(delivered, Len(delivered))

\* C17 as stated: when the enhance stream completes, the title callback is
\* invoked with the finalized title and the body callback with the finalized
\* body in every session; they are the last two notifications and carry the
\* returned title and body.
C17_BothNotifiedOnCompletion ==
    EnhanceReturned =>
        /\ Len(calls) >= Len(LoopCalls) + 2
        /\ { calls[Len(calls) - 1], calls[Len(calls)] } =
              { Call1("onTitleCandidate", result.refinedTitle),
                Call1("onDescriptionCandidate", result.refinedDescription) }

\* C17 amended: when the enhance stream completes, the body callback is
\* invoked once more, with the returned (trimmed) body, and it is the last
\* notification of the session; just before it the title callback is invoked
\* with the returned title when the streamed text has a newline or the
\* returned title is not empty; when the text has no newline and the returned
\* title is empty, the completion notifies no title.
C17_CompletionNotifications ==
    EnhanceReturned =>
        calls = LoopCalls
                \o (IF IndexOf(StreamText, "\n") # -1 \/ result.refinedTitle # ""
                    THEN << Call1("onTitleCandidate", result.refinedTitle) >>
                    ELSE << >>)
                \o << Call1("onDescriptionCandidate", result.refinedDescription) >>

\* a stream of white space without a newline: the loop notified the empty
\* title, the completion notifies the body only
C17_Witness ==
    /\ EnhanceReturned
    /\ StreamText = " "
    /\ calls = << Call1("onTitleCandidate", ""), Call1("onDescriptionCandidate", "") >>

HasNewline(s) == IndexOf(s, "\n") # -1

\* the fragment that revealed the first newline
DiscoveryFragment ==
    CHOOSE n \in 1..Len(delivered) :
        /\ HasNewline(TextOf(SubSeq(delivered, 1, n)))
        /\ ~HasNewline(TextOf(SubSeq(delivered, 1, n - 1)))

\* the position of the first body notification in the callback log
FirstBodyCall ==
    CHOOSE j \in 1..Len(calls) :
        /\ IsBodyCall(calls[j])
        /\ \A i \in 1..(j - 1) : ~IsBodyCall(calls[i])

\* the text fragments delivered after the one that revealed the newline
LaterTextFragments ==
    SelectSeq(SubSeq(delivered, DiscoveryFragment + 1, Len(delivered)), IsTextChunk)

\* C18: once the first newline is discovered, every later text fragment
\* triggers exactly one body notification and no title notification, and the
\* title delivered at the discovery is the title finally returned.  The
\* callback log is append-only and every prefix of a stream is a state, so the
\* count of notifications after the discovery, taken in every state, fixes
\* what each single fragment triggers.
C18_AfterNewlineBodyOnly ==
    (op = "enhance" /\ HasNewline(StreamText)) =>
        /\ BodyCalls # <<>>
        /\ FirstBodyCall > 1
        /\ IsTitleCall(calls[FirstBodyCall - 1])
        /\ pc \in {"streaming", "thrown"} =>
              /\ Len(calls) = FirstBodyCall + Len(LaterTextFragments)
              /\ \A i \in (FirstBodyCall + 1)..Len(calls) : IsBodyCall(calls[i])
        /\ pc = "returned" =>
              calls[FirstBodyCall - 1].text = result.refinedTitle

\* two text fragments after the one that revealed the newline
C18_Witness ==
    /\ op = "enhance"
    /\ pc = "streaming"
    /\ HasNewline(StreamText)
    /\ DiscoveryFragment = 1
    /\ Len(LaterTextFragments) = 2
    /\ Len(BodyCalls) = 3
    /\ Len(TitleCalls) = 1

\* the step delivers a fragment that carries no text to the enhance loop
NonTextFragmentStep ==
    /\ op = "enhance"
    /\ Len(delivered') = Len(delivered) + 1
    /\ ~IsString(Last(delivered').text)

IsPrefix(s, t) == Len(s) <= Len(t) /\ SubSeq(t, 1, Len(s)) = s

\* what C19 says of one step of the enhance call
AppendOnlyStep ==
    op = "enhance" =>
        /\ Len(accumulatedResponseText') >= Len(accumulatedResponseText)
        /\ IsPrefix(accumulatedResponseText, accumulatedResponseText')
        /\ firstNewlineIndex # -1 => firstNewlineIndex' = firstNewlineIndex
        /\ NonTextFragmentStep =>
              UNCHANGED << accumulatedResponseText, firstNewlineIndex, finalTitle,
                           finalDescription, calls >>

\* C19: the accumulated text of the enhance call is append-only: its length
\* never decreases and the index of the first newline, once found, never
\* changes; a fragment without text leaves the accumulated text, the newline
\* index and the last notified title and body unchanged and triggers no
\* callback.
C19_AccumulatedAppendOnly == [][AppendOnlyStep]_vars

\* a fragment without text has come after the newline was found
C19_Witness ==
    /\ op = "enhance"
    /\ pc = "streaming"
    /\ Len(delivered) = 3
    /\ delivered[1].text = Str("a\n")
    /\ delivered[2].text = Undefined
    /\ delivered[3].text = Str("a")
    /\ firstNewlineIndex = 1
    /\ accumulatedResponseText = "a\na"
    /\ Len(calls) = 3

(***************************************************************************)
(* Properties of the source extraction of streamContextualInfoWithAI.      *)
(***************************************************************************)
\* the web references of the response received last that pass the filter
LastPassingWebs ==
    LET last == Last(delivered)
    IN  IF last.groundingChunks.type = "array"
        THEN SelectSeq(last.groundingChunks.val, WebFilter)
        ELSE << >>

\* C20: the source list is computed from the response received last only,
\* and that response is retained even when it carries no text: citations of
\* an earlier response that the last one does not carry are not reported, and
\* a last response with citations and no text is still the one used.
C20_SourcesFromLastResponse ==
    (op = "context" /\ delivered # <<>>) =>
        /\ finalApiResponse = Last(delivered)
        /\ \A i \in 1..Len(SourcesCalls) :
              /\ Len(SourcesCalls[i].sources) = Len(LastPassingWebs)
              /\ \A j \in 1..Len(LastPassingWebs) :
                    SourcesCalls[i].sources[j].uri = LastPassingWebs[j].uri.val
        /\ pc = "returned" => Len(SourcesCalls) = 1

\* the first response carries a text and a citation, the last one no text
\* and another citation, which is the only one reported
C20_Witness ==
    /\ op = "context"
    /\ pc = "returned"
    /\ Len(delivered) = 2
    /\ delivered[1] = Response(Str("a"), Arr(<< Web(Str("http://z"), Str("Z")) >>))
    /\ delivered[2] = Response(Undefined, Arr(<< Web(Str("https://y"), Undefined) >>))
    /\ SourcesCalls = << CallSources(<< [uri |-> "https://y", title |-> "https://y"] >>) >>


(***************************************************************************)
(* Properties of Header's AI add.                                          *)
(***************************************************************************)
\* a step in which Header.handleAiSubmit finishes
AiAddFinishes ==
    \/ \E outcome \in ParseOutcomes, parsedTitle \in ParsedTitles :
           AiAddSettle(outcome, parsedTitle)
    \/ handleAiSubmit /\ ~Truthy(API_KEY)

\* C21: when Header.handleAiSubmit finishes, isProcessingAi is false again;
\* the AI input is cleared when the AI add succeeded, and after a failed AI
\* add (App shows an error) the typed text is still in the input.
C21_InputKeptOnFailure ==
    [][AiAddFinishes =>
           /\ ~isProcessingAi'
           /\ error' = Null => nlpInput' = ""
           /\ error' # Null => nlpInput' = nlpInput]_vars

(***************************************************************************)
(* Properties of App's task list.                                          *)
(***************************************************************************)
\* the stored value is a string JSON.parse cannot parse
FailsToParse(saved) == saved.type = "string" /\ JsonParse(saved.doc).kind = "throw"

\* C22: in every reachable state of App every task has tags and
\* contextualSources that are arrays, and as long as no task has been created
\* a stored value that fails to parse leaves the task list empty.
C22_TasksCarryArrays ==
    /\ \A i \in 1..Len(tasks) :
           /\ tasks[i].tags.type = "array"
           /\ tasks[i].contextualSources.type = "array"
    /\ FailsToParse(savedTasks) /\ generated = 0 => tasks = <<>>

\* C23: the commit of a pending save only adds its new task in front of the
\* task list of commit time, or updates the task with its own id in that
\* list; every other task is as it was just before the commit, so status
\* changes and deletions made while the save was pending are kept.
C23_CommitKeepsOtherTasks ==
    [][SaveCommit =>
           LET data == Head(timers).dataToSave
           IN  IF data.id # NoId
               THEN /\ Len(tasks') = Len(tasks)
                    /\ \A i \in 1..Len(tasks) :
                           tasks[i].id # data.id => tasks'[i] = tasks[i]
               ELSE /\ tasks' # <<>>
                    /\ Tail(tasks') = tasks]_vars

(***************************************************************************)
(* Properties of TaskForm's AI actions.                                    *)
(***************************************************************************)
\* the loading flag and the error message of a kind of AI action
Loading(kind) ==
    CASE kind = "enhance" -> isEnhancingAi
      [] kind = "tags" -> isSuggestingTags
      [] kind = "subtasks" -> isSuggestingSubtasks
      [] kind = "context" -> isFetchingContext

ErrorOf(kind) ==
    CASE kind = "enhance" -> enhancementError
      [] kind = "tags" -> tagsError
      [] kind = "subtasks" -> subtasksError
      [] kind = "context" -> contextError

\* a step that starts a service call sets the loading flag of its kind and
\* clears the error message of its kind
StartSetsFlag ==
    \A call \in aiCalls' \ aiCalls :
        /\ Loading(call.kind)'
        /\ ErrorOf(call.kind)' = Null

\* a step in which a call of the mounted form settles clears the loading flag
\* of its kind, and sets the error message of its kind when the call failed
SettleClearsFlag ==
    \A call \in aiCalls \ aiCalls' :
        Mounted(call) =>
            /\ ~Loading(call.kind)'
            /\ \A outcome \in AiOutcomes(call.kind) :
                   AiSettle(call, outcome) /\ outcome.kind = "throw" =>
                       ErrorOf(call.kind)' = AiError(call.kind, outcome.error)

\* C24: each AI action of TaskForm sets its own loading flag and clears its
\* own error message when it starts, and clears the flag when its service call
\* settles, leaving the error message of a failure set; when every service
\* call settles in the end, a form with a loading flag set always comes back
\* to a state in which no loading flag is set.
C24_LoadingFlagsCleared ==
    /\ [][StartSetsFlag /\ SettleClearsFlag]_vars
    /\ (isAnyAiLoading ~> ~isAnyAiLoading)

\* a failed tags suggestion has settled: its message is shown, nothing loads
C24_Witness ==
    /\ tagsError = Str("Failed to suggest tags with AI.")
    /\ ~isAnyAiLoading
    /\ isModalOpen

\* the calls in flight made by a TaskForm instance
CallsOf(form) == { call \in aiCalls : call.form = form }

\* no TaskForm instance has two service calls in flight, and a loading flag of
\* the mounted form is set exactly while its call of that kind is in flight
OneCallPerForm ==
    /\ \A form \in 1..MaxForms : Cardinality(CallsOf(form)) <= 1
    /\ \A kind \in AiKinds :
           Loading(kind) <=> \E call \in aiCalls : Mounted(call) /\ call.kind = kind

\* while a loading flag is set or isSubmitting is true, a step starts neither
\* a service call nor a save
NoStartWhileBusy ==
    isAnyAiLoading \/ isSubmitting =>
        /\ aiCalls' \subseteq aiCalls
        /\ Len(timers') <= Len(timers)

\* a stream callback that writes into the form belongs to the only call of the
\* mounted form in flight
WriteByTheOneCall ==
    writes' # writes /\ writes' # <<>> =>
        /\ writes'[1].call \in aiCalls
        /\ Mounted(writes'[1].call)
        /\ CallsOf(formKey) = { writes'[1].call }

C26_FormNotDismissedWhileBusy ==
    [][isModalOpen /\ (timers # <<>> \/ isAnyAiLoading) /\ Len(timers') >= Len(timers) =>
           /\ isModalOpen'
           /\ editingTask' = editingTask
           /\ aiSuggestedTask' = aiSuggestedTask]_vars

====
